---- MODULE Spec2Model ----
(***************************************************************************)
(* Model of the diagram library: the generic Graph (generic.py) and its    *)
(* two subclasses FCGraph and GraphicalModel (classes.py).                 *)
(*                                                                         *)
(* Conventions.                                                            *)
(*  - A Python dict is an ORDERED dict: a sequence of [k, v] records in    *)
(*    insertion order (render iterates the dicts in that order).           *)
(*  - A kwargs dict whose order never matters is a set of <<key, value>>   *)
(*    pairs; the empty dict is {}.                                         *)
(*  - Python None is the string "None".                                    *)
(*  - Lengths and coordinates are stored in HALF units (the integer n      *)
(*    stands for n/2), because FCGraph places units at half-integer        *)
(*    multiples of v_space.                                                *)
(*  - Values computed by render are exact rationals <<num, den>>.          *)
(*  - A Python str is a TLA+ string when it is only compared, and a        *)
(*    sequence of one-character strings when it is built (_gen_label).     *)
(***************************************************************************)
EXTENDS Integers, Sequences, FiniteSets, TLC

VARIABLES nodes, connections, rectangles, connection_types, node_types,
          self, pc, layer, P, result

vars == <<nodes, connections, rectangles, connection_types, node_types,
          self, pc, layer, P, result>>

(***************************************************************************)
(* Bounds of the model.                                                    *)
(***************************************************************************)
MaxRadius == 2
MaxSide == 2
MaxUnits == 2
MaxHidden == 2
MaxIndex == 2

(***************************************************************************)
(* Ordered dicts.                                                          *)
(***************************************************************************)
Keys(d) == {d[i].k : i \in DOMAIN d}

Has(d, key) == key \in Keys(d)

Get(d, key) == d[CHOOSE i \in DOMAIN d : d[i].k = key].v

Put(d, key, val) ==
    IF Has(d, key)
    THEN [i \in DOMAIN d |-> IF d[i].k = key THEN [k |-> key, v |-> val] ELSE d[i]]
    ELSE Append(d, [k |-> key, v |-> val])

Values(d) == [i \in DOMAIN d |-> d[i].v]

(***************************************************************************)
(* Exact rational arithmetic for the geometry of render.                   *)
(***************************************************************************)
Abs(n) == IF n < 0 THEN -n ELSE n

RECURSIVE Gcd(_, _)
Gcd(a, b) == IF b = 0 THEN a ELSE Gcd(b, a % b)

Norm(n, d) ==
    LET g == Gcd(Abs(n), Abs(d))
        s == IF d < 0 THEN -1 ELSE 1
    IN  <<(s * n) \div g, (s * d) \div g>>

Rat(n) == <<n, 1>>
RAdd(p, q) == Norm(p[1] * q[2] + q[1] * p[2], p[2] * q[2])
RSub(p, q) == Norm(p[1] * q[2] - q[1] * p[2], p[2] * q[2])
RMul(p, q) == Norm(p[1] * q[1], p[2] * q[2])
RDiv(p, q) == Norm(p[1] * q[2], p[2] * q[1])
RSign(p) == IF p[1] > 0 THEN 1 ELSE IF p[1] < 0 THEN -1 ELSE 0

\* s ** 0.5 for the sums of squares the model's points produce (all of them
\* perfect squares, so the root is exact)
Sqrt(s) == CHOOSE r \in 0..s : r * r = s

Min(a, b) == IF a <= b THEN a ELSE b
Max(a, b) == IF a >= b THEN a ELSE b

(***************************************************************************)
(* generic.py: Circle, arrow and Graph.                                    *)
(***************************************************************************)
\* Graph.__init__'s default annot
annot == 20

\* the registered rectangle types of a Graph built with no rectangle_types:
\* only the None entry that __init__ adds
rectangle_types == [t \in {"None"} |-> {}]

\* xy[::-1]
Reverse(xy) == <<xy[2], xy[1]>>

\* Circle(xy, radius, label = label, **style) with semi = False
Circle(xy, radius, label, style) ==
    [center |-> xy, radius |-> radius, label |-> label, style |-> style,
     annot_size |-> annot]

\* the state of a Graph object while a method runs: err is the exception
\* that aborted the method, "none" while it is still running
Obj == [nodes |-> nodes, connections |-> connections, err |-> "none"]

Raise(G, e) == [G EXCEPT !.err = e]

\* _add_connection asserting only that A is a node
_add_connection_from_node(G, A, B, connection_type) ==
    IF G.err # "none" THEN G
    ELSE IF ~Has(G.nodes, A) THEN Raise(G, "AssertionError")
    ELSE IF connection_type \notin DOMAIN connection_types THEN Raise(G, "KeyError")
    ELSE [G EXCEPT !.connections =
             Put(@, A, Put(Get(@, A), B, connection_types[connection_type]))]

\* _add_connection recording the connection in both directions
_add_connection_both_ways(G, A, B, connection_type) ==
    IF G.err # "none" THEN G
    ELSE IF ~(Has(G.nodes, A) /\ Has(G.nodes, B)) THEN Raise(G, "AssertionError")
    ELSE IF connection_type \notin DOMAIN connection_types THEN Raise(G, "KeyError")
    ELSE LET c == Put(G.connections, A,
                      Put(Get(G.connections, A), B, connection_types[connection_type]))
         IN  [G EXCEPT !.connections =
                 Put(c, B, Put(Get(c, B), A, connection_types[connection_type]))]

_add_connection(G, A, B, connection_type) ==
    IF G.err # "none" THEN G
    ELSE IF ~(Has(G.nodes, A) /\ Has(G.nodes, B)) THEN Raise(G, "AssertionError")
    ELSE IF connection_type \notin DOMAIN connection_types THEN Raise(G, "KeyError")
    ELSE [G EXCEPT !.connections =
             Put(@, A, Put(Get(@, A), B, connection_types[connection_type]))]

\* the one-character strings a str yields when a for loop iterates it
Chars(s) ==
    CASE s = "" -> <<>>
      [] s = "a" -> <<"a">>
      [] s = "b" -> <<"b">>
      [] s = "ab" -> <<"a", "b">>
      [] s = "ba" -> <<"b", "a">>

\* what the loop of _add_node iterates for connect_to: a str was wrapped in
\* a list, None is skipped.  arg = [kind, s, l]
IterTo(arg) ==
    CASE arg.kind = "None" -> <<>>
      [] arg.kind = "str" -> <<arg.s>>
      [] arg.kind = "list" -> arg.l

\* ... and for connect_from: the wrapped list is bound to the misspelt
\* connect_From, so a str is iterated character by character
IterFrom(arg) ==
    CASE arg.kind = "None" -> <<>>
      [] arg.kind = "str" -> Chars(arg.s)
      [] arg.kind = "list" -> arg.l

\* the calls _add_connection(*(connection, name)[::order]) of the loop, in
\* order: order = 1 for connect_to, -1 for connect_from
ConnectionCalls(name, connect_to, connect_from) ==
    [i \in 1..Len(IterTo(connect_to)) |-> <<IterTo(connect_to)[i], name>>]
    \o [i \in 1..Len(IterFrom(connect_from)) |-> <<name, IterFrom(connect_from)[i]>>]

RECURSIVE AddConnections(_, _, _)
AddConnections(G, calls, connection_type) ==
    IF calls = <<>> THEN G
    ELSE AddConnections(_add_connection(G, Head(calls)[1], Head(calls)[2], connection_type),
                        Tail(calls), connection_type)

\* _add_node without its assertion: a node of the same name is replaced
_add_node_replacing(G, name, xy, node_type, vertical, connect_to, connect_from, connection_type, radius, label) ==
    IF G.err # "none" THEN G
    ELSE IF node_type \notin DOMAIN node_types THEN Raise(G, "KeyError")
    ELSE LET c == Circle(IF vertical THEN Reverse(xy) ELSE xy, radius, label,
                         node_types[node_type])
             G1 == [G EXCEPT !.nodes = Put(@, name, c),
                             !.connections = Put(@, name, <<>>)]
         IN  AddConnections(G1, ConnectionCalls(name, connect_to, connect_from),
                            connection_type)

_add_node(G, name, xy, node_type, vertical, connect_to, connect_from, connection_type, radius, label) ==
    IF G.err # "none" THEN G
    ELSE IF Has(G.nodes, name) THEN Raise(G, "AssertionError")
    ELSE IF node_type \notin DOMAIN node_types THEN Raise(G, "KeyError")
    ELSE LET c == Circle(IF vertical THEN Reverse(xy) ELSE xy, radius, label,
                         node_types[node_type])
             G1 == [G EXCEPT !.nodes = Put(@, name, c),
                             !.connections = Put(@, name, <<>>)]
         IN  AddConnections(G1, ConnectionCalls(name, connect_to, connect_from),
                            connection_type)

\* plt.Rectangle(xy, width, height, **style) with its label_position; the
\* centre (x + width / 2, y + height / 2) is a pair of rationals
Rectangle(xy, width, height, label_position, style) ==
    [x |-> xy[1], y |-> xy[2], width |-> width, height |-> height,
     label_position |-> IF label_position = <<>>
                        THEN <<RAdd(Rat(xy[1]), <<width, 2>>),
                               RAdd(Rat(xy[2]), <<height, 2>>)>>
                        ELSE <<Rat(label_position[1]), Rat(label_position[2])>>,
     style |-> style]

\* the result of _add_rectangle: the new rectangles and the exception
_add_rectangle(rects, name, xy, width, height, rectangle_type, label_position) ==
    IF Has(rects, name) THEN [rectangles |-> rects, err |-> "AssertionError"]
    ELSE IF rectangle_type \notin DOMAIN rectangle_types
         THEN [rectangles |-> rects, err |-> "KeyError"]
    ELSE [rectangles |-> Put(rects, name,
                             Rectangle(xy, width, height, label_position,
                                       rectangle_types[rectangle_type])),
          err |-> "none"]

\* str(n) of a natural number, as its sequence of digits
Digit(d) == <<"0", "1", "2", "3", "4", "5", "6", "7", "8", "9">>[d + 1]

RECURSIVE Str(_)
Str(n) == IF n < 10 THEN <<Digit(n)>> ELSE Str(n \div 10) \o <<Digit(n % 10)>>

\* ','.join(map(str, args))
RECURSIVE Join(_)
Join(args) ==
    IF args = <<>> THEN <<>>
    ELSE IF Len(args) = 1 THEN Str(args[1])
    ELSE Str(args[1]) \o <<",">> \o Join(Tail(args))

\* the conditional expression of _gen_label parses as
\*   X if bold else (Y if ix else Z)
_gen_label(base, args, bold) ==
    LET ix == Join(args)
    IN  IF bold
        THEN <<"$", "\\", "m", "a", "t", "h", "b", "f", "{">> \o base
             \o <<"}", "_", "{">> \o ix \o <<"}", "$">>
        ELSE IF ix # <<>>
             THEN <<"$">> \o base \o <<"_">> \o <<"{">> \o ix \o <<"}", "$">>
             ELSE <<"$">> \o base \o <<"$">>

\* the bounding box of _render: first the rectangles, then the nodes, both
\* in insertion order, starting from x, y = [0, 0], [0, 0]
RectStep(box, r) ==
    LET x0 == Min(box.x[1], r.x)
        y0 == Min(box.y[1], r.y)
    IN  [x |-> <<x0, Max(x0, r.x + r.width)>>,
         y |-> <<y0, Max(y0, r.y + r.height)>>]

NodeStep(box, n) ==
    [x |-> <<Min(box.x[1], n.center[1] - n.radius), Max(box.x[2], n.center[1] + n.radius)>>,
     y |-> <<Min(box.y[1], n.center[2] - n.radius), Max(box.y[2], n.center[2] + n.radius)>>]

RECURSIVE BoxRects(_, _)
BoxRects(box, rs) ==
    IF rs = <<>> THEN box ELSE BoxRects(RectStep(box, Head(rs)), Tail(rs))

RECURSIVE BoxNodes(_, _)
BoxNodes(box, ns) ==
    IF ns = <<>> THEN box ELSE BoxNodes(NodeStep(box, Head(ns)), Tail(ns))

BoundingBox(rects, ns) ==
    BoxNodes(BoxRects([x |-> <<0, 0>>, y |-> <<0, 0>>], Values(rects)), Values(ns))

\* the (A, B, kwargs) triples the two nested loops of _render visit, in order
RECURSIVE ConnectionItems(_)
ConnectionItems(conns) ==
    IF conns = <<>> THEN <<>>
    ELSE [i \in DOMAIN Head(conns).v |->
             [A |-> Head(conns).k, B |-> Head(conns).v[i].k, kwargs |-> Head(conns).v[i].v]]
         \o ConnectionItems(Tail(conns))

\* arrow(x, y, dx, dy, **kwargs) with no twin among the kwargs: one
\* plt.arrow call.  A and B record the loop variables of the caller.
arrow(A, B, x, y, dx, dy, kwargs) ==
    [A |-> A, B |-> B, x |-> x, y |-> y, dx |-> dx, dy |-> dy, kwargs |-> kwargs]

\* DrawConnection with the arrow shortened by A's radius only, so that it
\* runs on to B's center
DrawConnectionToCenter(ns, A, B, kwargs) ==
    LET a == Get(ns, A)
        b == Get(ns, B)
        delta == <<b.center[1] - a.center[1], b.center[2] - a.center[2]>>
        dist == Sqrt(delta[1] * delta[1] + delta[2] * delta[2])
        unit == <<RDiv(Rat(delta[1]), Rat(dist)), RDiv(Rat(delta[2]), Rat(dist))>>
        x == RAdd(Rat(a.center[1]), RMul(Rat(a.radius), unit[1]))
        y == RAdd(Rat(a.center[2]), RMul(Rat(a.radius), unit[2]))
        diff == dist - a.radius
    IN  arrow(A, B, x, y, RMul(unit[1], Rat(diff)), RMul(unit[2], Rat(diff)), kwargs)

\* the body of the inner loop of _render for the connection A -> B, dist # 0
DrawConnection(ns, A, B, kwargs) ==
    LET a == Get(ns, A)
        b == Get(ns, B)
        delta == <<b.center[1] - a.center[1], b.center[2] - a.center[2]>>
        dist == Sqrt(delta[1] * delta[1] + delta[2] * delta[2])
        unit == <<RDiv(Rat(delta[1]), Rat(dist)), RDiv(Rat(delta[2]), Rat(dist))>>
        x == RAdd(Rat(a.center[1]), RMul(Rat(a.radius), unit[1]))
        y == RAdd(Rat(a.center[2]), RMul(Rat(a.radius), unit[2]))
        diff == dist - a.radius - b.radius
    IN  arrow(A, B, x, y, RMul(unit[1], Rat(diff)), RMul(unit[2], Rat(diff)), kwargs)

Dist(ns, A, B) ==
    LET a == Get(ns, A)
        b == Get(ns, B)
    IN  Sqrt((b.center[1] - a.center[1]) * (b.center[1] - a.center[1])
             + (b.center[2] - a.center[2]) * (b.center[2] - a.center[2]))

\* the arrows loop: d / dist raises ZeroDivisionError when the two centers
\* coincide, and the arrows drawn so far stay drawn
RECURSIVE DrawArrows(_, _, _)
DrawArrows(ns, items, drawn) ==
    IF items = <<>> THEN [arrows |-> drawn, err |-> "none"]
    ELSE IF Dist(ns, Head(items).A, Head(items).B) = 0
         THEN [arrows |-> drawn, err |-> "ZeroDivisionError"]
    ELSE DrawArrows(ns, Tail(items),
                    Append(drawn, DrawConnection(ns, Head(items).A, Head(items).B,
                                                 Head(items).kwargs)))

_render(rects, ns, conns) ==
    LET d == DrawArrows(ns, ConnectionItems(conns), <<>>)
    IN  [op |-> "render", err |-> d.err, value |-> <<[box |-> BoundingBox(rects, ns), arrows |-> d.arrows]>>]

\* the outcome of a call: the method called, the exception it raised and
\* what it drew or returned (nothing, for the calls that only update the graph)
Outcome(op, e) == [op |-> op, err |-> e, value |-> <<>>]

(***************************************************************************)
(* The public methods of Graph, one action per call.                       *)
(***************************************************************************)
add_node(name, xy, node_type, vertical, connect_to, connect_from, connection_type, radius) ==
    LET G == _add_node(Obj, name, xy, node_type, vertical, connect_to, connect_from,
                       connection_type, radius, "None")
    IN  /\ pc = "Graph"
        /\ nodes' = G.nodes
        /\ connections' = G.connections
        /\ result' = Outcome("add_node", G.err)
        /\ UNCHANGED <<rectangles, connection_types, node_types, self, pc, layer, P>>

add_connection(A, B, connection_type) ==
    LET G == _add_connection(Obj, A, B, connection_type)
    IN  /\ pc \in {"Graph", "GraphicalModel"}
        /\ connections' = G.connections
        /\ result' = Outcome("add_connection", G.err)
        /\ UNCHANGED <<nodes, rectangles, connection_types, node_types, self, pc, layer, P>>

add_rectangle(name, xy, width, height, rectangle_type, label_position) ==
    LET R == _add_rectangle(rectangles, name, xy, width, height, rectangle_type,
                            label_position)
    IN  /\ pc \in {"Graph", "GraphicalModel"}
        /\ rectangles' = R.rectangles
        /\ result' = Outcome("add_rectangle", R.err)
        /\ UNCHANGED <<nodes, connections, connection_types, node_types, self, pc, layer, P>>

render ==
    /\ pc \in {"Graph", "GraphicalModel"}
    /\ result' = _render(rectangles, nodes, connections)
    /\ UNCHANGED <<nodes, connections, rectangles, connection_types, node_types, self, pc, layer, P>>

(***************************************************************************)
(* classes.py: the keyword dictionaries.                                   *)
(***************************************************************************)
_arrow_kwargs == {<<"head_width", "0.2">>, <<"fc", "k">>, <<"length_includes_head", "True">>}
_input_kwargs == {<<"ec", "k">>, <<"fc", "tab:green">>}
_hidden_kwargs == {<<"ec", "k">>, <<"fc", "tab:blue">>}
_output_kwargs == {<<"ec", "k">>, <<"fc", "tab:orange">>}
_bias_kwargs == {<<"alpha", "0.5">>, <<"ls", "(0, (5, 5))">>}
_data_kwargs == {<<"ec", "k">>, <<"fc", "silver">>}
_variable_kwargs == {<<"ec", "k">>, <<"fc", "none">>, <<"ls", "(0, (5, 5))">>}
_function_kwargs == {<<"ec", "k">>, <<"fc", "none">>}

\* d.copy(); d.update(e)
Update(d, e) == {p \in d : \A q \in e : q[1] # p[1]} \cup e

\* d.update({None : {}}) of Graph.__init__, d a function from type to kwargs
WithNone(d) == [t \in DOMAIN d \cup {"None"} |-> IF t = "None" THEN {} ELSE d[t]]

(***************************************************************************)
(* Graph: a Graph(node_types = {'plain' : ...}, connection_types =         *)
(* {'normal' : ...}) driven by any sequence of calls whose arguments are   *)
(* drawn from the sets of the record I.                                    *)
(***************************************************************************)
Names == {"a", "b"}
Points == {<<0, 0>>, <<6, 0>>, <<6, 8>>}
Radii == {2 * r : r \in 1..MaxRadius}
Sides == 1..MaxSide
NoArg == [kind |-> "None", s |-> "", l |-> <<>>]
StrArg(s) == [kind |-> "str", s |-> s, l |-> <<>>]
ListArg(l) == [kind |-> "list", s |-> "", l |-> l]

InitGraph ==
    /\ nodes = <<>>
    /\ connections = <<>>
    /\ rectangles = <<>>
    /\ node_types = WithNone([t \in {"plain"} |-> _function_kwargs])
    /\ connection_types = WithNone([t \in {"normal"} |-> _arrow_kwargs])
    /\ self = <<>>
    /\ pc = "Graph"
    /\ layer = 0
    /\ P = <<>>
    /\ result = Outcome("__init__", "none")

NextGraph(I) ==
    \/ \E name \in Names, pl \in I.placements, t \in I.node_types, r \in I.radii,
          ca \in I.connects, c \in I.connection_types :
          add_node(name, pl[1], t, pl[2], ca[1], ca[2], c, r)
    \/ \E A \in Names, B \in Names, c \in I.connection_types : add_connection(A, B, c)
    \/ \E name \in I.rect_names, xy \in I.rect_points, w \in I.sides, h \in I.sides,
          t \in I.rectangle_types, lp \in I.label_positions :
          add_rectangle(name, xy, w, h, t, lp)
    \/ render

\* the data model: every way a call can succeed or fail, little geometry
\* (a vertical node is given its point reversed)
DataInputs ==
    [placements |-> {<<<<0, 0>>, FALSE>>, <<<<0, 6>>, TRUE>>},
     node_types |-> {"plain", "fancy"},
     radii |-> {2},
     connects |-> {<<NoArg, NoArg>>, <<StrArg("a"), NoArg>>,
                   <<ListArg(<<"b", "a">>), StrArg("ab")>>},
     connection_types |-> {"None", "normal", "dashed"},
     rect_names |-> {"r"},
     rect_points |-> {<<0, 0>>},
     sides |-> {2},
     rectangle_types |-> {"None", "plate"},
     label_positions |-> {<<>>, <<1, 1>>}]

Spec == InitGraph /\ [][NextGraph(DataInputs)]_vars

\* the arrows of render: nodes at every point with every radius, the points
\* chosen so that every distance between two of them is a whole number
ArrowInputs ==
    [placements |-> {<<p, FALSE>> : p \in Points},
     node_types |-> {"plain"},
     radii |-> Radii,
     connects |-> {<<NoArg, NoArg>>},
     connection_types |-> {"normal"},
     rect_names |-> {"r"},
     rect_points |-> {<<0, 0>>},
     sides |-> {2},
     rectangle_types |-> {"None"},
     label_positions |-> {<<>>}]

SpecRender == InitGraph /\ [][NextGraph(ArrowInputs)]_vars

\* the bounding box of render: two rectangles of every size at either point
BoxInputs ==
    [placements |-> {<<<<0, 0>>, FALSE>>, <<<<6, 8>>, FALSE>>},
     node_types |-> {"plain"},
     radii |-> {2},
     connects |-> {<<NoArg, NoArg>>},
     connection_types |-> {"normal"},
     rect_names |-> {"r", "s"},
     rect_points |-> {<<0, 0>>, <<-4, 2>>},
     sides |-> Sides,
     rectangle_types |-> {"None"},
     label_positions |-> {<<>>}]

SpecBox == InitGraph /\ [][NextGraph(BoxInputs)]_vars

(***************************************************************************)
(* GraphicalModel: a GraphicalModel(radius = 1) driven by any sequence of  *)
(* calls.                                                                  *)
(***************************************************************************)
\* str(name) of a one-character name, as its sequence of characters
StrOf(name) == <<name>>

GraphicalModel_add_node(name, xy, node_type, bold, vertical, connect_to, connect_from, connection_type) ==
    LET label == _gen_label(StrOf(name), <<>>, bold)
        G == _add_node(Obj, name, xy, node_type, vertical, connect_to, connect_from,
                       connection_type, self.radius, label)
    IN  /\ pc = "GraphicalModel"
        /\ nodes' = G.nodes
        /\ connections' = G.connections
        /\ result' = Outcome("add_node", G.err)
        /\ UNCHANGED <<rectangles, connection_types, node_types, self, pc, layer, P>>

InitGM ==
    /\ nodes = <<>>
    /\ connections = <<>>
    /\ rectangles = <<>>
    /\ node_types = WithNone([t \in {"data", "variable", "function"} |->
                                 CASE t = "data" -> _data_kwargs
                                   [] t = "variable" -> _variable_kwargs
                                   [] t = "function" -> _function_kwargs])
    /\ connection_types = WithNone([t \in {"normal"} |-> _arrow_kwargs])
    /\ self = [arrow_kwargs |-> _arrow_kwargs, radius |-> 2, annot |-> annot]
    /\ pc = "GraphicalModel"
    /\ layer = 0
    /\ P = <<>>
    /\ result = Outcome("__init__", "none")

NextGM ==
    \/ \E name \in {"X", "f"}, xy \in {<<0, 0>>, <<6, 0>>}, t \in {"data", "latent"},
          bold \in BOOLEAN :
          GraphicalModel_add_node(name, xy, t, bold, FALSE, NoArg, NoArg, "None")
    \/ \E A \in {"X", "f"}, B \in {"X", "f"}, c \in {"None", "normal"} :
          add_connection(A, B, c)
    \/ \E lp \in {<<>>, <<1, 1>>} : add_rectangle("r", <<0, 0>>, 2, 2, "None", lp)
    \/ render

SpecGM == InitGM /\ [][NextGM]_vars

(***************************************************************************)
(* _gen_label as a function of its arguments.                              *)
(***************************************************************************)
Bases == {<<"x">>, <<"b">>, <<"\\", "t", "h", "e", "t", "a">>}
Indices == 0..MaxIndex \cup {12}
IndexLists == {<<>>} \cup {<<i>> : i \in Indices} \cup {<<i, j>> : i \in Indices, j \in Indices}

InitLabel ==
    /\ nodes = <<>>
    /\ connections = <<>>
    /\ rectangles = <<>>
    /\ node_types = WithNone(<<>>)
    /\ connection_types = WithNone(<<>>)
    /\ self \in [base : Bases, args : IndexLists, bold : BOOLEAN]
    /\ pc = "_gen_label"
    /\ layer = 0
    /\ P = <<>>
    /\ result = Outcome("__init__", "none")

gen_label ==
    /\ pc = "_gen_label"
    /\ result.value = <<>>
    /\ result' = [op |-> "_gen_label", err |-> "none", value |-> <<_gen_label(self.base, self.args, self.bold)>>]
    /\ UNCHANGED <<nodes, connections, rectangles, connection_types, node_types, self,
                   pc, layer, P>>

SpecLabel == InitLabel /\ [][gen_label]_vars

(***************************************************************************)
(* FCGraph: the constructor, one add_nodes call per step.                  *)
(***************************************************************************)
\* the defaults of FCGraph.__init__
v_space == 3
h_space == 5
radius == 1

\* max([n_input, *n_hidden, n_output])
RECURSIVE MaxOf(_)
MaxOf(ns) == IF Len(ns) = 1 THEN ns[1] ELSE Max(ns[1], MaxOf(Tail(ns)))

\* f'{base}-{m}-{j}' and f'{base}-{j}', as the tuple of their fields
UnitName(base, m, j) == IF base = self.labels[2] THEN <<base, m, j>> ELSE <<base, j>>

\* (m * h_space, v_space * (j + (_m - n - bias) / 2)), in half units
UnitXY(m, j, n, bias) ==
    <<2 * m * self.h_space, self.v_space * (2 * j + self._m - n - bias)>>

\* node_type + '_bias'
BiasType(node_type) ==
    CASE node_type = "input" -> "input_bias"
      [] node_type = "hidden" -> "hidden_bias"
      [] node_type = "output" -> "output_bias"

\* self.bias * (base != self.labels[2])
BiasOf(base) == IF self.bias /\ base # self.labels[3] THEN 1 ELSE 0

\* one iteration of the loop of add_nodes: the unit j and its connections
\* from every unit of the previous layer
AddUnit(G, base, n, m, node_type, j) ==
    LET args == IF base = self.labels[2] THEN <<m, j + 1>> ELSE <<j + 1>>
        name == UnitName(base, m, j)
        label == _gen_label(<<base>>, args, FALSE)
        G1 == _add_node(G, name, UnitXY(m, j, n, BiasOf(base)), node_type, self.vertical,
                        NoArg, NoArg, "None", 2 * self.radius, label)
    IN  AddConnections(G1, [i \in DOMAIN P |-> <<P[i], name>>], "normal")

RECURSIVE AddUnits(_, _, _, _, _, _)
AddUnits(G, base, n, m, node_type, j) ==
    IF j = n THEN G
    ELSE AddUnits(AddUnit(G, base, n, m, node_type, j), base, n, m, node_type, j + 1)

\* f'b-{m}-{j}' and f'b-{j}', as the tuple of their fields
BiasName(base, m, j) == IF base = self.labels[2] THEN <<"b", m, j>> ELSE <<"b", j>>

\* AddBias connecting the previous layer to the bias unit as to any unit
AddBiasConnected(G, base, n, m, node_type) ==
    IF BiasOf(base) = 0 THEN G
    ELSE IF G.err # "none" THEN G
    ELSE AddConnections(
             _add_node(G, BiasName(base, m, n), UnitXY(m, n, n, BiasOf(base)),
                       BiasType(node_type), self.vertical, NoArg, NoArg, "None",
                       2 * self.radius, _gen_label(<<"b">>, <<m>>, FALSE)),
             [i \in DOMAIN P |-> <<P[i], BiasName(base, m, n)>>], "normal")

\* the bias unit that follows the loop, named with j = n
AddBias(G, base, n, m, node_type) ==
    IF BiasOf(base) = 0 THEN G
    ELSE IF G.err # "none" THEN G
    ELSE _add_node(G, BiasName(base, m, n), UnitXY(m, n, n, BiasOf(base)),
                   BiasType(node_type), self.vertical, NoArg, NoArg, "None",
                   2 * self.radius, _gen_label(<<"b">>, <<m>>, FALSE))

\* the list P that add_nodes builds
NewP(base, n, m) ==
    [j \in 1..n |-> UnitName(base, m, j - 1)]
    \o (IF BiasOf(base) = 0 THEN <<>> ELSE <<BiasName(base, m, n)>>)

\* the arguments of the add_nodes call __init__ makes for layer m
LayerBase(m) ==
    IF m = 0 THEN self.labels[1]
    ELSE IF m <= Len(self.n_hidden) THEN self.labels[2] ELSE self.labels[3]

LayerSize(m) ==
    IF m = 0 THEN self.n_input
    ELSE IF m <= Len(self.n_hidden) THEN self.n_hidden[m] ELSE self.n_output

LayerType(m) ==
    IF m = 0 THEN "input" ELSE IF m <= Len(self.n_hidden) THEN "hidden" ELSE "output"

add_nodes ==
    LET m == layer
        base == LayerBase(m)
        n == LayerSize(m)
        G == AddBias(AddUnits(Obj, base, n, m, LayerType(m), 0), base, n, m, LayerType(m))
    IN  /\ pc = "FCGraph"
        /\ nodes' = G.nodes
        /\ connections' = G.connections
        /\ P' = IF G.err = "none" THEN NewP(base, n, m) ELSE P
        /\ layer' = m + 1
        /\ pc' = IF G.err # "none" THEN "failed"
                 ELSE IF m = Len(self.n_hidden) + 1 THEN "done" ELSE "FCGraph"
        /\ result' = Outcome("add_nodes", G.err)
        /\ UNCHANGED <<rectangles, connection_types, node_types, self>>

Sizes == 1..MaxUnits
HiddenLists == UNION {[1..k -> Sizes] : k \in 0..MaxHidden}
Labels == {<<"x", "h", "y">>, <<"x", "y", "y">>, <<"x", "h", "x">>, <<"x", "h", "b">>,
           <<"h", "h", "y">>}

InitFC ==
    /\ nodes = <<>>
    /\ connections = <<>>
    /\ rectangles = <<>>
    /\ node_types = WithNone([t \in {"input", "hidden", "output", "input_bias", "hidden_bias"} |->
                                 CASE t = "input" -> _input_kwargs
                                   [] t = "hidden" -> _hidden_kwargs
                                   [] t = "output" -> _output_kwargs
                                   [] t = "input_bias" -> Update(_input_kwargs, _bias_kwargs)
                                   [] t = "hidden_bias" -> Update(_hidden_kwargs, _bias_kwargs)])
    /\ connection_types = WithNone([t \in {"normal"} |-> _arrow_kwargs])
    /\ \E ni \in Sizes, nh \in HiddenLists, no \in Sizes, b \in BOOLEAN, v \in BOOLEAN,
          l \in Labels :
          self = [n_input |-> ni, n_hidden |-> nh, n_output |-> no, bias |-> b,
                  vertical |-> v, labels |-> l, v_space |-> v_space, h_space |-> h_space,
                  radius |-> radius, _m |-> MaxOf(<<ni>> \o nh \o <<no>>)]
    /\ pc = "FCGraph"
    /\ layer = 0
    /\ P = <<>>
    /\ result = Outcome("__init__", "none")

SpecFC == InitFC /\ [][add_nodes]_vars

(***************************************************************************)
(* Properties of the library.                                              *)
(***************************************************************************)
\* vectors of rationals
RVec(p) == <<Rat(p[1]), Rat(p[2])>>
RMinus(p, q) == <<RSub(p[1], q[1]), RSub(p[2], q[2])>>
RDot(p, q) == RAdd(RMul(p[1], q[1]), RMul(p[2], q[2]))
RCross(p, q) == RSub(RMul(p[1], q[2]), RMul(p[2], q[1]))

\* the point pt lies on the circle c, on the ray from c's center to the
\* center of the circle d
OnBoundaryToward(pt, c, d) ==
    LET v == RMinus(pt, RVec(c.center))
        to == RMinus(RVec(d.center), RVec(c.center))
    IN  /\ RDot(v, v) = Rat(c.radius * c.radius)
        /\ RCross(v, to) = Rat(0)
        /\ RSign(RDot(v, to)) = 1

\* the vector v is the unit vector from c's center to d's center times
\* (distance - radius(c) - radius(d))
IsGap(v, c, d) ==
    LET to == RMinus(RVec(d.center), RVec(c.center))
    IN  \E dist \in 1..20 :
           /\ Rat(dist * dist) = RDot(to, to)
           /\ RCross(v, to) = Rat(0)
           /\ RDot(v, v) = Rat((dist - c.radius - d.radius) * (dist - c.radius - d.radius))
           /\ RSign(RDot(v, to)) = RSign(Rat(dist - c.radius - d.radius))

\* C1: the arrows a render has drawn are those of the recorded connections,
\* in order, up to the first connection between coincident centers (where
\* render raises), all of them when there is none; each arrow A -> B starts
\* on A's circle on the ray toward B's center, ends on B's circle on the ray
\* toward A's center, and its displacement is the unit vector from A to B
\* times (distance - radius(A) - radius(B)).
ArrowsTouchCircles ==
    result.op = "render" =>
        LET arrows == result.value[1].arrows
            items == ConnectionItems(connections)
            Apart(it) == Get(nodes, it.A).center # Get(nodes, it.B).center
        IN  /\ Len(arrows) <= Len(items)
            /\ (result.err = "none") = (\A i \in DOMAIN items : Apart(items[i]))
            /\ result.err = "none" => Len(arrows) = Len(items)
            /\ \A i \in DOMAIN arrows :
                  LET w == arrows[i]
                      a == Get(nodes, w.A)
                      b == Get(nodes, w.B)
                  IN  /\ w.A = items[i].A /\ w.B = items[i].B
                      /\ w.kwargs = items[i].kwargs
                      /\ Apart(items[i])
                      /\ OnBoundaryToward(<<w.x, w.y>>, a, b)
                      /\ OnBoundaryToward(<<RAdd(w.x, w.dx), RAdd(w.y, w.dy)>>, b, a)
                      /\ IsGap(<<w.dx, w.dy>>, a, b)

\* a render drew both arrows of two circles of different radii that are
\* connected both ways
ArrowsDrawn ==
    /\ result.op = "render"
    /\ result.err = "none"
    /\ Len(result.value[1].arrows) = 2
    /\ Len(nodes) = 2
    /\ nodes[1].v.radius # nodes[2].v.radius

\* C2: the bounding box a render computes covers every rectangle and every
\* node of the graph.
BoxCoversGraph ==
    result.op = "render" =>
        LET box == result.value[1].box
        IN  /\ \A i \in DOMAIN rectangles :
                  LET r == rectangles[i].v
                  IN  /\ box.x[1] <= r.x /\ r.x + r.width <= box.x[2]
                      /\ box.y[1] <= r.y /\ r.y + r.height <= box.y[2]
            /\ \A i \in DOMAIN nodes :
                  LET n == nodes[i].v
                  IN  /\ box.x[1] <= n.center[1] - n.radius
                      /\ n.center[1] + n.radius <= box.x[2]
                      /\ box.y[1] <= n.center[2] - n.radius
                      /\ n.center[2] + n.radius <= box.y[2]

\* the entry A -> B of connections: <<kwargs>>, or <<>> when there is none
Entry(conns, A, B) ==
    IF Has(conns, A) /\ Has(Get(conns, A), B) THEN <<Get(Get(conns, A), B)>> ELSE <<>>

\* no key occurs twice in the dict d
UniqueKeys(d) == \A i, j \in DOMAIN d : d[i].k = d[j].k => i = j

\* the call fails with an assertion error and changes nothing
Rejected ==
    /\ result'.err = "AssertionError"
    /\ UNCHANGED <<nodes, connections, rectangles>>

\* C3: add_node with a name already in nodes, and add_rectangle with a name
\* already in rectangles, fails with an assertion error and leaves nodes,
\* connections and rectangles as they were: a step that is not such a
\* failure is no add_node and no add_rectangle with a name already taken.
DuplicateNamesRejected ==
    [][\/ Rejected
       \/ /\ \A name \in Keys(nodes), pl \in DataInputs.placements,
                t \in DataInputs.node_types, r \in DataInputs.radii,
                ca \in DataInputs.connects, c \in DataInputs.connection_types :
                ~add_node(name, pl[1], t, pl[2], ca[1], ca[2], c, r)
          /\ \A name \in Keys(rectangles), xy \in DataInputs.rect_points,
                w \in DataInputs.sides, h \in DataInputs.sides,
                t \in DataInputs.rectangle_types, lp \in DataInputs.label_positions :
                ~add_rectangle(name, xy, w, h, t, lp)]_vars

\* an add_node failed on its assertion although it could not fail on a
\* connection (every name is a node): its name was taken; a rectangle exists
DuplicateNodeTried ==
    /\ result.op = "add_node"
    /\ result.err = "AssertionError"
    /\ Keys(nodes) = Names
    /\ rectangles # <<>>

\* every recorded connection joins two nodes and every node has an entry
ConnectionsWithinNodes ==
    /\ Keys(connections) = Keys(nodes)
    /\ \A i \in DOMAIN connections : Keys(connections[i].v) \subseteq Keys(nodes)

\* C4: add_connection(A, B) fails with an assertion error and leaves
\* connections unchanged unless A and B are both nodes; and in every state
\* every recorded connection has its source and its target in nodes and
\* every node has an entry in connections.
ConnectionsNeedNodes ==
    /\ []ConnectionsWithinNodes
    /\ [][result'.op = "add_connection" =>
            \A A \in Names, B \in Names, c \in DataInputs.connection_types :
               (add_connection(A, B, c) /\ ~(Has(nodes, A) /\ Has(nodes, B)))
                  => Rejected]_vars

\* an add_connection was refused while a node and a connection exist
ConnectionRefused ==
    /\ result.op = "add_connection"
    /\ result.err = "AssertionError"
    /\ Len(nodes) = 1
    /\ connections[1].v # <<>>

\* C5: a successful add_connection(A, B, t) sets the entry A -> B to the
\* arguments registered for t and changes nothing else: no other entry (B -> A
\* in particular), no node, no rectangle; no dict of connections ever holds a
\* key twice.
ConnectionsDirected ==
    [][result'.op = "add_connection" =>
          \A A \in Names, B \in Names, c \in DataInputs.connection_types :
             (add_connection(A, B, c) /\ result'.err = "none") =>
                /\ Entry(connections', A, B) = <<connection_types[c]>>
                /\ \A A2 \in Names, B2 \in Names :
                      <<A2, B2>> # <<A, B>> =>
                         Entry(connections', A2, B2) = Entry(connections, A2, B2)
                /\ Keys(connections') = Keys(connections)
                /\ UniqueKeys(connections')
                /\ \A i \in DOMAIN connections' : UniqueKeys(connections'[i].v)
                /\ UNCHANGED <<nodes, rectangles>>]_vars

\* an add_connection succeeded and a -> b is recorded while b -> a is not
OneWayConnection ==
    /\ result.op = "add_connection"
    /\ result.err = "none"
    /\ Entry(connections, "a", "b") = <<_arrow_kwargs>>
    /\ Has(nodes, "b")
    /\ Entry(connections, "b", "a") = <<>>

\* C6: in a GraphicalModel, a connection added with no connection type is
\* recorded with the model's arrow_kwargs.
ConnectionsUseArrowKwargs ==
    [][result'.op = "add_connection" =>
          \A A \in {"X", "f"}, B \in {"X", "f"} :
             (add_connection(A, B, "None") /\ result'.err = "none") =>
                Entry(connections', A, B) = <<self.arrow_kwargs>>]_vars

\* C7: the label is the base, wrapped in \mathbf{...} when bold, followed by
\* '_{i1,i2,...}' when there is at least one index and by nothing otherwise.
LabelHasJoinedSubscript ==
    result.op = "_gen_label" =>
        LET core == IF self.bold
                    THEN <<"\\", "m", "a", "t", "h", "b", "f", "{">> \o self.base \o <<"}">>
                    ELSE self.base
            sub == IF self.args = <<>> THEN <<>>
                   ELSE <<"_", "{">> \o Join(self.args) \o <<"}">>
        IN  result.value[1] = <<"$">> \o core \o sub \o <<"$">>

\* the layer of a unit, from its place: units of layer m are at m * h_space
LayerOf(n) == (IF self.vertical THEN n.center[2] ELSE n.center[1]) \div (2 * self.h_space)

IsBias(n) == n.style \in {node_types["input_bias"], node_types["hidden_bias"]}

Units(m) == {i \in DOMAIN nodes : LayerOf(nodes[i].v) = m}

\* C8: after construction the units of layer m that are no bias units are
\* LayerSize(m) many, and the recorded connections are exactly the pairs
\* (p, q) with p any unit of a layer and q any unit of the next layer that is
\* no bias unit.
FullyConnectedLayers ==
    pc = "done" =>
        /\ \A m \in 0..(Len(self.n_hidden) + 1) :
              Cardinality({i \in Units(m) : ~IsBias(nodes[i].v)}) = LayerSize(m)
        /\ \A i \in DOMAIN nodes : LayerOf(nodes[i].v) \in 0..(Len(self.n_hidden) + 1)
        /\ UniqueKeys(nodes)
        /\ ConnectionsWithinNodes
        /\ \A i, j \in DOMAIN nodes :
              (Entry(connections, nodes[i].k, nodes[j].k) # <<>>)
                 = (/\ LayerOf(nodes[j].v) = LayerOf(nodes[i].v) + 1
                    /\ ~IsBias(nodes[j].v))

\* a network with bias units, a hidden layer and two output units is built
BiasedNetworkBuilt ==
    /\ pc = "done"
    /\ self.bias
    /\ Len(self.n_hidden) >= 1
    /\ self.n_output >= 2
    /\ \E i \in DOMAIN nodes : IsBias(nodes[i].v) /\ LayerOf(nodes[i].v) = 1

RECURSIVE Sum(_)
Sum(ns) == IF ns = <<>> THEN 0 ELSE Head(ns) + Sum(Tail(ns))

\* C9: with bias on, the input layer and each hidden layer have exactly one
\* bias unit, of type input_bias / hidden_bias, the output layer has none,
\* and the graph has n_input + sum(n_hidden) + n_output + 1 + len(n_hidden)
\* nodes; with bias off there is no bias unit and n_input + sum(n_hidden) +
\* n_output nodes.
BiasUnitPerLayer ==
    pc = "done" =>
        LET total == self.n_input + Sum(self.n_hidden) + self.n_output
            Biases(m) == {i \in Units(m) : IsBias(nodes[i].v)}
        IN  IF self.bias
            THEN /\ Len(nodes) = total + 1 + Len(self.n_hidden)
                 /\ \E i \in Units(0) :
                       Biases(0) = {i} /\ nodes[i].v.style = node_types["input_bias"]
                 /\ \A m \in 1..Len(self.n_hidden) :
                       \E i \in Units(m) :
                          Biases(m) = {i} /\ nodes[i].v.style = node_types["hidden_bias"]
                 /\ Biases(Len(self.n_hidden) + 1) = {}
            ELSE /\ Len(nodes) = total
                 /\ \A i \in DOMAIN nodes : ~IsBias(nodes[i].v)

====
